---- MODULE Spec2Model ----
(***************************************************************************)
(* Model of the Azure Boards MCP server (src/src/index.ts, the second,     *)
(* complete copy of the program, lines 218-661).                           *)
(*                                                                         *)
(* Strings the program inspects character by character (URLs, names, MIME  *)
(* types, field values) are sequences of one-character strings.  Texts the *)
(* program produces from template literals are sequences of tokens: every  *)
(* literal chunk of the template is one token, every interpolated value    *)
(* contributes its characters.                                             *)
(***************************************************************************)
EXTENDS Integers, Sequences, FiniteSets, TLC

\* ------------------------------------------------------------------ bounds
MaxRels == 2
MaxBatches == 2
MaxComments == 2
MaxCount == 5

\* ------------------------------------------------------- program constants
batchSize == 200
DefaultLimit == 100

\* ------------------------------------------------- optional values and ??
None == <<>>
Some(v) == <<v>>
Coalesce(o, d) == IF o = None THEN d ELSE o[1]

\* ----------------------------------------------------------------- strings
RECURSIVE Flatten(_)
Flatten(ss) ==
  IF ss = <<>> THEN <<>>
  ELSE IF Len(ss) = 1 THEN ss[1]
  ELSE LET h == Len(ss) \div 2
       IN Flatten(SubSeq(ss, 1, h)) \o Flatten(SubSeq(ss, h + 1, Len(ss)))

RECURSIVE Join(_, _)
Join(ss, sep) ==
  IF ss = <<>> THEN <<>>
  ELSE IF Len(ss) = 1 THEN ss[1]
  ELSE LET h == Len(ss) \div 2
       IN Join(SubSeq(ss, 1, h), sep) \o sep \o Join(SubSeq(ss, h + 1, Len(ss)), sep)

Includes(s, ch) == \E k \in 1..Len(s) : s[k] = ch

StartsWith(s, p) == Len(s) >= Len(p) /\ SubSeq(s, 1, Len(p)) = p

Digit(d) == CASE d = 0 -> "0" [] d = 1 -> "1" [] d = 2 -> "2" [] d = 3 -> "3"
              [] d = 4 -> "4" [] d = 5 -> "5" [] d = 6 -> "6" [] d = 7 -> "7"
              [] d = 8 -> "8" [] d = 9 -> "9"

RECURSIVE NumStr(_)
NumStr(n) == IF n < 10 THEN <<Digit(n)>> ELSE NumStr(n \div 10) \o <<Digit(n % 10)>>

Unreserved == {"a", "b", "c", "e", "j", "m", "n", "o", "p", "r", "t", "u", "x", "y",
               "A", "D", "M", "P", "S", "T",
               "0", "1", "2", "3", "4", "5", "6", "7", "8", "9", "-", "_", ".", "!", "~"}

EncodeChar(ch) ==
  CASE ch = " " -> <<"%", "2", "0">>
    [] ch = "?" -> <<"%", "3", "F">>
    [] ch = "&" -> <<"%", "2", "6">>
    [] ch = "/" -> <<"%", "2", "F">>
    [] ch = "=" -> <<"%", "3", "D">>
    [] ch = "%" -> <<"%", "2", "5">>
    [] ch = "<" -> <<"%", "3", "C">>
    [] ch = ">" -> <<"%", "3", "E">>
    [] ch = ":" -> <<"%", "3", "A">>
    [] ch \in Unreserved -> <<ch>>

encodeURIComponent(s) == Flatten([k \in 1..Len(s) |-> EncodeChar(s[k])])

\* orgUrl.replace(/\/$/, "")
StripTrailingSlash(s) ==
  IF Len(s) > 0 /\ s[Len(s)] = "/" THEN SubSeq(s, 1, Len(s) - 1) ELSE s

\* The HTML to Markdown converter: tags become Markdown marks, text stays.
TurndownToken(t) ==
  CASE t = "<b>" -> <<"**">>
    [] t = "</b>" -> <<"**">>
    [] t = "<p>" -> <<>>
    [] t = "</p>" -> <<>>
    [] OTHER -> <<t>>

turndown(html) == Flatten([k \in 1..Len(html) |-> TurndownToken(html[k])])

\* --------------------------------------------------------- handler results
NoResult == [kind |-> "none"]
Returned(block) == [kind |-> "returned", content |-> <<block>>]
Thrown(e) == [kind |-> "thrown", error |-> e]
TextBlock(t) == [type |-> "text", text |-> t]

\* Values a failing step throws: an Error object or some other value.
ErrorObj(m) == [isError |-> TRUE, message |-> m]
ThrownValue(v) == [isError |-> FALSE, value |-> v]
TypeErrorUndefined(prop) ==
  ErrorObj(<<"Cannot read properties of undefined (reading '", prop, "')">>)
TypeErrorNull(prop) ==
  ErrorObj(<<"Cannot read properties of null (reading '", prop, "')">>)
Failures == {ErrorObj(<<"request failed">>), ThrownValue(<<"aborted">>)}

\* ---------------------------------------------------- external work items
FieldNames == {"System.Title", "System.State", "System.TeamProject",
               "Custom.UserStoryFormat", "System.Description", "System.IterationPath"}

FieldValue(n) ==
  CASE n = "System.Title" -> <<"T">>
    [] n = "System.State" -> <<"N", "e", "w">>
    [] n = "System.TeamProject" -> <<"M", "y", " ", "P">>
    [] n = "Custom.UserStoryFormat" -> <<"<b>", "A", "</b>">>
    [] n = "System.Description" -> <<"<p>", "D", "</p>">>
    [] n = "System.IterationPath" -> <<"S", "1">>

AllFields == [n \in FieldNames |-> FieldValue(n)]

FieldMaps ==
  {[n \in S |-> FieldValue(n)] : S \in SUBSET FieldNames}
    \cup {[AllFields EXCEPT !["System.TeamProject"] = <<>>]}

\* fields[key] of a possibly partial field map
Field(fields, key) == IF key \in DOMAIN fields THEN Some(fields[key]) ELSE None

Relations ==
  [rel : {Some("AttachedFile"), Some("Hyperlink")},
   url : {None, Some(<<"u">>), Some(<<"u", "?", "x">>)},
   attributes : {None, Some([name |-> None]), Some([name |-> Some(<<"a", " ", "?">>)])}]
    \cup {[rel |-> None, url |-> None, attributes |-> None]}

RelationSeqs == UNION {[1..n -> Relations] : n \in 0..MaxRels}

WorkItems ==
  {[fields |-> f, relations |-> None] : f \in {None} \cup {Some(m) : m \in FieldMaps}}
    \cup {[fields |-> Some(AllFields), relations |-> Some(r)] : r \in RelationSeqs}

Ids == {7}


\* ------------------------------------------------------------------- state
\* Slots for handler invocations.  Spec runs one invocation at a time, in
\* slot "a"; SpecSameItem runs one in each slot.
Calls == {"a", "b"}

VARIABLES
  boot,           \* "start" | "failed" | "connecting" | "serving"
  pat,            \* process.env.AZDO_PAT ?? ""
  orgUrl,         \* process.env.AZDO_ORG_URL ?? ""
  witApiPromise,  \* "none" | "pending" | "resolved" | "rejected"
  clientInits,    \* calls of connection.getWorkItemTrackingApi() so far
  remote,         \* Some(item) when the service holds one fixed item, else None
  op,             \* per call: the tool invoked, "" when idle
  pc,             \* per call: the await the handler is suspended at
  arg,            \* per call: the validated arguments
  loc,            \* per call: the handler's local variables
  result          \* per call: what the handler returned or threw

vars == <<boot, pat, orgUrl, witApiPromise, clientInits, remote, op, pc, arg, loc, result>>
server == <<boot, pat, orgUrl, witApiPromise, clientInits, remote>>

NoArgs == [id |-> 0, limit |-> 0, comment_id |-> 0, url |-> <<>>, name |-> None]

NoLocals ==
  [wi |-> None, attachments |-> None, project |-> None,
   ids |-> <<>>, i |-> 0, workItems |-> <<>>, batches |-> <<>>, inFlight |-> 0,
   response |-> None, data |-> None, request |-> None, caught |-> None,
   raised |-> None]

InitFailure == ErrorObj(<<"client initialization failed">>)

Init ==
  /\ boot = "start"
  /\ pat \in {<<>>, <<"p">>}
  /\ orgUrl \in {<<>>, <<"o">>, <<"o", "/">>}
  /\ witApiPromise = "none"
  /\ clientInits = 0
  /\ remote = None
  /\ op = [c \in Calls |-> ""]
  /\ pc = [c \in Calls |-> "idle"]
  /\ arg = [c \in Calls |-> NoArgs]
  /\ loc = [c \in Calls |-> NoLocals]
  /\ result = [c \in Calls |-> NoResult]

\* ----------------------------------------------------------------- startup
\* Lines 231-239 and the registrations up to `await server.connect`.
Startup ==
  /\ boot = "start"
  /\ IF pat = <<>> \/ orgUrl = <<>>
       THEN /\ boot' = "failed"
            /\ UNCHANGED <<witApiPromise, clientInits>>
       ELSE /\ boot' = "connecting"
            /\ witApiPromise' = "pending"
            /\ clientInits' = clientInits + 1
  /\ UNCHANGED <<pat, orgUrl, remote, op, pc, arg, loc, result>>

Connect ==
  /\ boot = "connecting"
  /\ boot' = "serving"
  /\ UNCHANGED <<pat, orgUrl, witApiPromise, clientInits, remote, op, pc, arg, loc, result>>

InitSettles ==
  /\ witApiPromise = "pending"
  /\ witApiPromise' \in {"resolved", "rejected"}
  /\ UNCHANGED <<boot, pat, orgUrl, clientInits, remote, op, pc, arg, loc, result>>

\* ------------------------------------------------------- common step forms
\* A handler that creates its own client on entry instead of using the
\* module-level promise.
BeginLazyInit(c, tool, a, at) ==
  /\ boot = "serving"
  /\ pc[c] = "idle"
  /\ op' = [op EXCEPT ![c] = tool]
  /\ pc' = [pc EXCEPT ![c] = at]
  /\ arg' = [arg EXCEPT ![c] = a]
  /\ witApiPromise' = "pending"
  /\ clientInits' = clientInits + 1
  /\ UNCHANGED <<boot, pat, orgUrl, remote, loc, result>>

Begin(c, tool, a, at) ==
  /\ boot = "serving"
  /\ pc[c] = "idle"
  /\ op' = [op EXCEPT ![c] = tool]
  /\ pc' = [pc EXCEPT ![c] = at]
  /\ arg' = [arg EXCEPT ![c] = a]
  /\ UNCHANGED <<server, loc, result>>

At(c, tool, at) == op[c] = tool /\ pc[c] = at

Goto(c, at) == pc' = [pc EXCEPT ![c] = at] /\ UNCHANGED <<op, arg, server>>

Finish(c, r) ==
  /\ pc' = [pc EXCEPT ![c] = "done"]
  /\ result' = [result EXCEPT ![c] = r]
  /\ UNCHANGED <<op, arg, server>>

\* A handler that turns the exception into a normal response.
PropagateAsText(e) ==
  [kind |-> "returned",
   content |-> <<[type |-> "text", text |-> <<"Error: ">> \o (IF e.isError THEN e.message ELSE e.value)]>>]

\* An exception in a handler without try/catch rejects the handler's promise.
Propagate(e) == Thrown(e)

\* A step of such a handler raises e; l holds the locals at that point.
Uncaught(c, l, e) ==
  /\ Finish(c, Propagate(e))
  /\ loc' = [loc EXCEPT ![c] = [l EXCEPT !.raised = Some(e)]]

\* The transport sends the handler's outcome and the call is over.
Respond(c) ==
  /\ pc[c] = "done"
  /\ op' = [op EXCEPT ![c] = ""]
  /\ pc' = [pc EXCEPT ![c] = "idle"]
  /\ arg' = [arg EXCEPT ![c] = NoArgs]
  /\ loc' = [loc EXCEPT ![c] = NoLocals]
  /\ result' = [result EXCEPT ![c] = NoResult]
  /\ UNCHANGED server

\* Outcomes of witApi.getWorkItem(id, undefined, undefined, 1)
Value(v) == [kind |-> "value", value |-> v]
Failure(e) == [kind |-> "error", error |-> e]

GetWorkItemOutcomes ==
  IF remote = None
    THEN {Value(Some(w)) : w \in WorkItems} \cup {Value(None)}
           \cup {Failure(e) : e \in Failures}
    ELSE {Value(remote)}

\* ----------------------------------------------------- work-item (245-298)
NoName == <<"<", "n", "o", " ", "n", "a", "m", "e", ">">>

IsAttachedFile(rel) == rel.rel = Some("AttachedFile")

\* rel.attributes?.name ?? "<no name>"
WorkItemRelName(rel) ==
  IF rel.attributes = None THEN NoName ELSE Coalesce(rel.attributes[1].name, NoName)

\* A separator that ignores an existing query string.
WorkItemSeparatorAlwaysQuery(url) == <<"?">>

WorkItemSeparator(url) == IF Includes(url, "?") THEN <<"&">> ELSE <<"?">>

WorkItemAttachment(rel) ==
  [name |-> WorkItemRelName(rel),
   url |-> rel.url[1] \o WorkItemSeparator(rel.url[1]) \o <<"f","i","l","e","N","a","m","e","=">>
             \o encodeURIComponent(WorkItemRelName(rel))]

\* Lines 269-280: Value(attachments), or the TypeError of rel.url.includes
WorkItemAttachments(wi) ==
  LET relations == Coalesce(wi.relations, <<>>)
      attached == SelectSeq(relations, IsAttachedFile)
  IN IF \E k \in 1..Len(attached) : attached[k].url = None
       THEN Failure(TypeErrorUndefined("includes"))
       ELSE Value([k \in 1..Len(attached) |-> WorkItemAttachment(attached[k])])

AttachmentLink(att) == <<"* [">> \o att.name \o <<"](">> \o att.url \o <<")">>

AttachmentsHeading == "\n\n---\n**Attachments:**\n"

\* Lines 283-293
AttachmentsSection(attachments) ==
  IF Len(attachments) > 0
    THEN <<AttachmentsHeading>>
           \o Join([k \in 1..Len(attachments) |-> AttachmentLink(attachments[k])], <<"\n">>)
    ELSE <<>>

EditUrl(org, project, id) ==
  StripTrailingSlash(org) \o <<"/">> \o encodeURIComponent(project)
    \o <<"/_workitems/edit/">> \o NumStr(id)

NoProject == <<"<", "n", "o", " ", "p", "r", "o", "j", "e", "c", "t", ">">>

\* Lines 254-267 and 294
WorkItemMarkdown(org, id, wi, attachments) ==
  LET fields == Coalesce(wi.fields, <<>>)
      title == Coalesce(Field(fields, "System.Title"), <<"<no title>">>)
      state == Coalesce(Field(fields, "System.State"), <<"<no state>">>)
      project == Coalesce(Field(fields, "System.TeamProject"), NoProject)
      userStoryFormat ==
        turndown(Coalesce(Field(fields, "Custom.UserStoryFormat"), <<"<no user story format>">>))
      desc == turndown(Coalesce(Field(fields, "System.Description"), <<"<no description>">>))
  IN <<"# [">> \o title \o <<"](">> \o EditUrl(org, project, id) \o <<")\n\n**State:** ">>
       \o state \o <<"\n\n---\n">> \o userStoryFormat \o <<"\n\n---\n">> \o desc
       \o AttachmentsSection(attachments)

NotFoundText(id) == <<"Work item ">> \o NumStr(id) \o <<" not found.">>

InvokeWorkItem(c) ==
  \E id \in Ids : Begin(c, "work-item", [NoArgs EXCEPT !.id = id], "awaitApi")

WorkItemAwaitApi(c) ==
  /\ At(c, "work-item", "awaitApi")
  /\ \/ witApiPromise = "resolved" /\ Goto(c, "getWorkItem") /\ UNCHANGED <<loc, result>>
     \/ witApiPromise = "rejected" /\ Uncaught(c, loc[c], InitFailure)

WorkItemGetWorkItem(c) ==
  /\ At(c, "work-item", "getWorkItem")
  /\ \E o \in GetWorkItemOutcomes :
       IF o.kind = "error"
         THEN Uncaught(c, loc[c], o.error)
       ELSE IF o.value = None
         THEN Finish(c, Returned(TextBlock(NotFoundText(arg[c].id)))) /\ UNCHANGED loc
       ELSE LET wi == o.value[1]
                atts == WorkItemAttachments(wi)
            IN IF atts.kind = "error"
                 THEN Uncaught(c, [loc[c] EXCEPT !.wi = Some(wi)], atts.error)
                 ELSE /\ Finish(c, Returned(TextBlock(
                                     WorkItemMarkdown(orgUrl, arg[c].id, wi, atts.value))))
                      /\ loc' = [loc EXCEPT ![c].wi = Some(wi),
                                            ![c].attachments = Some(atts.value)]

\* ------------------------------------------ work-item-attachments (356-373)
ListRelName(rel) ==
  IF rel.attributes = None THEN NoName ELSE Coalesce(rel.attributes[1].name, NoName)

\* A separator that has drifted from the one get-work-item uses.
ListSeparatorAlwaysAmp(url) == <<"&">>

ListSeparator(url) == IF Includes(url, "?") THEN <<"&">> ELSE <<"?">>

ListAttachment(rel) ==
  [name |-> ListRelName(rel),
   url |-> rel.url[1] \o ListSeparator(rel.url[1]) \o <<"f","i","l","e","N","a","m","e","=">>
             \o encodeURIComponent(ListRelName(rel))]

\* Lines 359-369
ListAttachments(wi) ==
  LET relations == Coalesce(wi.relations, <<>>)
      attached == SelectSeq(relations, IsAttachedFile)
  IN IF \E k \in 1..Len(attached) : attached[k].url = None
       THEN Failure(TypeErrorUndefined("includes"))
       ELSE Value([k \in 1..Len(attached) |-> ListAttachment(attached[k])])

JsonChar(ch) ==
  CASE ch = "\"" -> <<"\\", "\"">>
    [] ch = "\\" -> <<"\\", "\\">>
    [] OTHER -> <<ch>>

JsonString(s) == <<"\"">> \o Flatten([k \in 1..Len(s) |-> JsonChar(s[k])]) \o <<"\"">>

JsonAttachment(att) ==
  <<"  {\n    \"name\": ">> \o JsonString(att.name) \o <<",\n    \"url\": ">>
    \o JsonString(att.url) \o <<"\n  }">>

\* JSON.stringify(attachments, null, 2)
StringifyAttachments(attachments) ==
  IF attachments = <<>> THEN <<"[]">>
  ELSE <<"[\n">>
         \o Join([k \in 1..Len(attachments) |-> JsonAttachment(attachments[k])], <<",\n">>)
         \o <<"\n]">>

InvokeAttachments(c) ==
  \E id \in Ids : Begin(c, "work-item-attachments", [NoArgs EXCEPT !.id = id], "awaitApi")

AttachmentsAwaitApi(c) ==
  /\ At(c, "work-item-attachments", "awaitApi")
  /\ \/ witApiPromise = "resolved" /\ Goto(c, "getWorkItem") /\ UNCHANGED <<loc, result>>
     \/ witApiPromise = "rejected" /\ Uncaught(c, loc[c], InitFailure)

AttachmentsGetWorkItem(c) ==
  /\ At(c, "work-item-attachments", "getWorkItem")
  /\ \E o \in GetWorkItemOutcomes :
       IF o.kind = "error"
         THEN Uncaught(c, loc[c], o.error)
       ELSE IF o.value = None
         THEN Uncaught(c, loc[c], TypeErrorNull("relations"))
       ELSE LET wi == o.value[1]
                atts == ListAttachments(wi)
            IN IF atts.kind = "error"
                 THEN Uncaught(c, [loc[c] EXCEPT !.wi = Some(wi)], atts.error)
                 ELSE /\ Finish(c, Returned(TextBlock(StringifyAttachments(atts.value))))
                      /\ loc' = [loc EXCEPT ![c].wi = Some(wi),
                                            ![c].attachments = Some(atts.value)]

\* ------------------------------------------------ my-work-items (305-349)
\* Sizes of the id list the query returns: around every multiple of batchSize.
ListSizes ==
  {0, 1, 2} \cup {k * batchSize + d : k \in 1..MaxBatches, d \in {-1, 0, 1}}

\* The query orders by changed date, so ids come in no particular id order.
IdOrders == {"descending", "scattered"}
QueryIds(n, order) ==
  [k \in 1..n |-> IF order = "descending" THEN 5000 - k ELSE 1000 + ((k * 7) % 1009)]

\* Outcomes of witApi.queryByWiql(wiql): a result with or without workItems,
\* no result at all, or a failure.
QueryOutcomes ==
  {Value(Some([workItems |-> Some(QueryIds(n, o))])) : n \in ListSizes, o \in IdOrders}
    \cup {Value(Some([workItems |-> None])), Value(None)}
    \cup {Failure(e) : e \in Failures}

\* Shapes of the records witApi.getWorkItems(batch) returns for the ids asked.
ItemShapes == {"full", "titleOnly", "bare"}
ListItem(id, shape) ==
  CASE shape = "full" -> [id |-> Some(id), fields |-> Some(AllFields)]
    [] shape = "titleOnly" ->
         [id |-> Some(id), fields |-> Some([n \in {"System.Title"} |-> FieldValue(n)])]
    [] shape = "bare" -> [id |-> None, fields |-> None]

GetWorkItemsOutcomes(batch) ==
  {Value(Some([k \in 1..Len(batch) |-> ListItem(batch[k], sh)])) : sh \in ItemShapes}
    \cup {Value(None)}
    \cup {Failure(e) : e \in Failures}

NoWorkItemsText == <<"No work items assigned to you.">>

\* The guard of line 317 dropped.
NoWorkItemsNever(workItemRefs) == FALSE

\* Line 317
NoWorkItems(workItemRefs) == Len(workItemRefs) = 0

Min(x, y) == IF x < y THEN x ELSE y

\* A slice that runs one id into the next batch.
BatchSliceOverlapping(ids, i) == SubSeq(ids, i + 1, Min(i + batchSize + 1, Len(ids)))

\* Line 329: ids.slice(i, i + batchSize)
BatchSlice(ids, i) == SubSeq(ids, i + 1, Min(i + batchSize, Len(ids)))

\* " \u2013 ", the en dash of line 344 with its two spaces
EnDash == " (en dash) "

\* Lines 335-345
Bullet(wi) ==
  LET fields == Coalesce(wi.fields, <<>>)
      title == Coalesce(Field(fields, "System.Title"), <<"<no title>">>)
      state == Coalesce(Field(fields, "System.State"), <<"<no state>">>)
      sprint == Coalesce(Field(fields, "System.IterationPath"), <<"<no sprint>">>)
  IN <<"* #">> \o (IF wi.id = None THEN <<"?">> ELSE NumStr(wi.id[1])) \o <<EnDash>>
       \o title \o <<" (**">> \o state \o <<"**) - ">> \o sprint

ListMarkdown(workItems) == Join([k \in 1..Len(workItems) |-> Bullet(workItems[k])], <<"\n">>)

\* A loop that sends the following batch along with the current one.
BatchLoopPrefetch(c, l, ids, i, workItems) ==
  IF i < Len(ids)
    THEN /\ loc' = [loc EXCEPT ![c] =
                      [l EXCEPT !.ids = ids, !.i = i, !.workItems = workItems,
                                !.batches = IF i + batchSize < Len(ids)
                                              THEN @ \o <<BatchSlice(ids, i), BatchSlice(ids, i + batchSize)>>
                                              ELSE Append(@, BatchSlice(ids, i)),
                                !.inFlight = IF i + batchSize < Len(ids) THEN 2 ELSE 1]]
         /\ Goto(c, "getWorkItems")
         /\ UNCHANGED result
    ELSE /\ loc' = [loc EXCEPT ![c] = [l EXCEPT !.ids = ids, !.i = i, !.workItems = workItems,
                                                !.inFlight = 0]]
         /\ Finish(c, Returned(TextBlock(ListMarkdown(workItems))))

\* The for loop of lines 328-332 from its test to the next await, and past its
\* end lines 334-348.
BatchLoop(c, l, ids, i, workItems) ==
  IF i < Len(ids)
    THEN /\ loc' = [loc EXCEPT ![c] = [l EXCEPT !.ids = ids, !.i = i, !.workItems = workItems,
                                                !.batches = Append(@, BatchSlice(ids, i)),
                                                !.inFlight = 1]]
         /\ Goto(c, "getWorkItems")
         /\ UNCHANGED result
    ELSE /\ loc' = [loc EXCEPT ![c] = [l EXCEPT !.ids = ids, !.i = i, !.workItems = workItems,
                                                !.inFlight = 0]]
         /\ Finish(c, Returned(TextBlock(ListMarkdown(workItems))))

InvokeMyWorkItems(c) == Begin(c, "my-work-items", NoArgs, "awaitApi")

MyWorkItemsAwaitApi(c) ==
  /\ At(c, "my-work-items", "awaitApi")
  /\ \/ witApiPromise = "resolved" /\ Goto(c, "queryByWiql") /\ UNCHANGED <<loc, result>>
     \/ witApiPromise = "rejected" /\ Uncaught(c, loc[c], InitFailure)

\* Lines 314-326 and the first pass of the loop
MyWorkItemsQuery(c) ==
  /\ At(c, "my-work-items", "queryByWiql")
  /\ \E o \in QueryOutcomes :
       IF o.kind = "error"
         THEN Uncaught(c, loc[c], o.error)
       ELSE IF o.value = None
         THEN Uncaught(c, loc[c], TypeErrorNull("workItems"))
       ELSE LET workItemRefs == Coalesce(o.value[1].workItems, <<>>)
            IN IF NoWorkItems(workItemRefs)
                 THEN /\ Finish(c, Returned(TextBlock(NoWorkItemsText)))
                      /\ loc' = [loc EXCEPT ![c].response = o.value]
                 ELSE BatchLoop(c, [loc[c] EXCEPT !.response = o.value], workItemRefs, 0, <<>>)

\* Lines 330-331, then the loop again
MyWorkItemsBatch(c) ==
  /\ At(c, "my-work-items", "getWorkItems")
  /\ \E o \in GetWorkItemsOutcomes(loc[c].batches[Len(loc[c].batches)]) :
       IF o.kind = "error"
         THEN Uncaught(c, [loc[c] EXCEPT !.inFlight = 0], o.error)
         ELSE BatchLoop(c, loc[c], loc[c].ids, loc[c].i + batchSize,
                        loc[c].workItems \o Coalesce(o.value, <<>>))

\* --------------------------------------------------- fetch-url (386-430)
\* A URL string, by what the URL parser makes of it: whether it parses at all
\* and its query parameters in order.
Param(k, v) == [key |-> k, value |-> v]
Urls ==
  {[text |-> <<"n", "o", "t", " ", "a", " ", "u", "r", "l">>, valid |-> FALSE, query |-> <<>>],
   [text |-> <<"h", ":", "/", "/", "o", "/", "f">>, valid |-> TRUE, query |-> <<>>],
   [text |-> <<"h", ":", "/", "/", "o", "/", "f", "?", "fileName", "=", "a">>, valid |-> TRUE,
    query |-> <<Param("fileName", <<"a">>)>>],
   [text |-> <<"h", ":", "/", "/", "o", "/", "f", "?", "x", "=", "1", "&", "fileName", "=", "b",
               "&", "fileName", "=", "c">>, valid |-> TRUE,
    query |-> <<Param("x", <<"1">>), Param("fileName", <<"b">>), Param("fileName", <<"c">>)>>]}

\* URLSearchParams.get: the first value of the key, null when there is none
SearchParamsGet(query, key) ==
  LET hits == SelectSeq(query, LAMBDA q : q.key = key)
  IN IF hits = <<>> THEN None ELSE Some(hits[1].value)

\* Lines 395-398: a URL that does not parse leaves extractedName undefined
ExtractedName(url) == IF url.valid THEN SearchParamsGet(url.query, "fileName") ELSE None

\* Line 399: overrideName ?? extractedName
FinalName(overrideName, url) == IF overrideName # None THEN overrideName ELSE ExtractedName(url)

MimeTypes ==
  {<<>>,
   <<"i", "m", "a", "g", "e", "/", "p", "n", "g">>,
   <<"i", "m", "a", "g", "e", "/">>,
   <<"i", "m", "a", "g", "e">>,
   <<"i", "m", "a", "g", "e", "x", "/", "p", "n", "g">>,
   <<"t", "e", "x", "t", "/", "c", "s", "v">>,
   <<"t", "e", "x", "t", "/">>,
   <<"t", "e", "x", "t">>,
   <<"t", "e", "x", "t", "/", "i", "m", "a", "g", "e", "/">>,
   <<"i", "m", "a", "g", "e", "/", "t", "e", "x", "t", "/">>,
   <<"a", "p", "p", "l", "i", "c", "a", "t", "i", "o", "n", "/", "p", "d", "f">>,
   <<"I", "m", "a", "g", "e", "/", "p", "n", "g">>,
   <<" ", "i", "m", "a", "g", "e", "/", "p", "n", "g">>,
   <<"x", "t", "e", "x", "t", "/", "p", "l", "a", "i", "n">>}

Statuses == {200, 204, 302, 401, 404, 500}
Bodies == {<<>>, <<104>>, <<104, 105>>, <<104, 105, 33>>, <<255>>}

\* response.ok
Ok(status) == 200 <= status /\ status <= 299

Responses == [status : Statuses, contentType : {None} \cup {Some(m) : m \in MimeTypes}]

Base64Alphabet ==
  <<"A", "B", "C", "D", "E", "F", "G", "H", "I", "J", "K", "L", "M", "N", "O", "P",
    "Q", "R", "S", "T", "U", "V", "W", "X", "Y", "Z", "a", "b", "c", "d", "e", "f",
    "g", "h", "i", "j", "k", "l", "m", "n", "o", "p", "q", "r", "s", "t", "u", "v",
    "w", "x", "y", "z", "0", "1", "2", "3", "4", "5", "6", "7", "8", "9", "+", "/">>

RECURSIVE Base64(_)
\* buffer.toString("base64")
Base64(bytes) ==
  IF bytes = <<>> THEN <<>>
  ELSE LET b1 == bytes[1]
           b2 == IF Len(bytes) >= 2 THEN bytes[2] ELSE 0
           b3 == IF Len(bytes) >= 3 THEN bytes[3] ELSE 0
           c1 == Base64Alphabet[(b1 \div 4) + 1]
           c2 == Base64Alphabet[((b1 % 4) * 16 + b2 \div 16) + 1]
           c3 == IF Len(bytes) >= 2 THEN Base64Alphabet[((b2 % 16) * 4 + b3 \div 64) + 1] ELSE "="
           c4 == IF Len(bytes) >= 3 THEN Base64Alphabet[(b3 % 64) + 1] ELSE "="
       IN <<c1, c2, c3, c4>> \o (IF Len(bytes) > 3 THEN Base64(SubSeq(bytes, 4, Len(bytes))) ELSE <<>>)

\* buffer.toString("utf8") on the bytes of Bodies
Utf8Char(b) ==
  CASE b = 104 -> "h"
    [] b = 105 -> "i"
    [] b = 33 -> "!"
    [] b >= 128 -> "(U+FFFD)"

Utf8(bytes) == [k \in 1..Len(bytes) |-> Utf8Char(bytes[k])]

ImagePrefix == <<"i", "m", "a", "g", "e", "/">>
TextPrefix == <<"t", "e", "x", "t", "/">>

\* A routing that forgets the slash of the image prefix.
FetchBlockTypeNoSlash(mimeType) ==
  IF StartsWith(mimeType, <<"i", "m", "a", "g", "e">>) THEN "image"
  ELSE IF StartsWith(mimeType, TextPrefix) THEN "text"
  ELSE "resource"

\* The tests of lines 401 and 414
FetchBlockType(mimeType) ==
  IF StartsWith(mimeType, ImagePrefix) THEN "image"
  ELSE IF StartsWith(mimeType, TextPrefix) THEN "text"
  ELSE "resource"

\* Lines 401-429
FetchBlock(url, buffer, mimeType, finalName) ==
  CASE FetchBlockType(mimeType) = "image" ->
         [type |-> "image", data |-> Base64(buffer), mimeType |-> mimeType, name |-> finalName]
    [] FetchBlockType(mimeType) = "text" ->
         [type |-> "text", text |-> Utf8(buffer), name |-> finalName]
    [] FetchBlockType(mimeType) = "resource" ->
         [type |-> "resource",
          resource |-> [uri |-> url.text, blob |-> Base64(buffer), mimeType |-> mimeType],
          name |-> finalName]

\* Lines 386-391: the handler starts with the fetch
InvokeFetchUrl(c) ==
  \E url \in Urls, name \in {None, Some(<<"o">>)} :
    Begin(c, "fetch-url", [NoArgs EXCEPT !.url = url, !.name = name], "fetch")

FetchUrlResponse(c) ==
  /\ At(c, "fetch-url", "fetch")
  /\ IF ~arg[c].url.valid
       THEN Uncaught(c, loc[c], ErrorObj(<<"Failed to parse URL">>))
       ELSE \/ \E r \in Responses :
                 /\ loc' = [loc EXCEPT ![c].response = Some(r)]
                 /\ Goto(c, "arrayBuffer")
                 /\ UNCHANGED result
            \/ \E e \in Failures : Uncaught(c, loc[c], e)

\* Lines 392-429
FetchUrlBody(c) ==
  /\ At(c, "fetch-url", "arrayBuffer")
  /\ \/ \E buffer \in Bodies :
          LET mimeType == Coalesce(loc[c].response[1].contentType, <<>>)
              finalName == FinalName(arg[c].name, arg[c].url)
          IN /\ Finish(c, Returned(FetchBlock(arg[c].url, buffer, mimeType, finalName)))
             /\ loc' = [loc EXCEPT ![c].data = Some(buffer)]
     \/ \E e \in Failures : Uncaught(c, loc[c], e)

\* ---------------------------------------------------- comments (444-554)
\* A date string of a payload: empty, unparseable, or an instant given to the
\* millisecond.
DateStrings ==
  {[kind |-> "empty"], [kind |-> "invalid"]}
    \cup {[kind |-> "iso", sec |-> sec, ms |-> ms] : sec \in {0, 1}, ms \in {0, 500}}

\* A string is truthy unless it is empty.
Truthy(d) == d.kind # "empty"

\* new Date(d).toLocaleString(): date and time to the second
LocaleString(d) ==
  IF d.kind = "iso"
    THEN <<"1/1/2024, 10:00:0">> \o NumStr(d.sec) \o <<" AM">>
    ELSE <<"Invalid Date">>

\* The text of a comment: an HTML string, or a value that is no string.
Html(tokens) == [isString |-> TRUE, html |-> tokens]
NotAString == [isString |-> FALSE, html |-> <<"4", "2">>]
CommentTexts == {Html(<<"<p>", "h", "i", "</p>">>), Html(<<>>), NotAString}

Authors == {None, Some([displayName |-> None]), Some([displayName |-> Some(<<"A", "n", "n">>)])}

Comment(id, createdBy, createdDate, modifiedDate, text) ==
  [id |-> id, createdBy |-> createdBy, createdDate |-> createdDate,
   modifiedDate |-> modifiedDate, text |-> text]

FullComment(id) ==
  Comment(Some(id), Some([displayName |-> Some(<<"A", "n", "n">>)]),
          Some([kind |-> "iso", sec |-> 0, ms |-> 0]), None, Some(Html(<<"<b>", "h", "i", "</b>">>)))
BareComment == Comment(None, None, None, None, None)

\* Every shape of one comment as list-comments reads it, and lists of a few.
ListedComments ==
  {Comment(id, by, cd, None, tx) :
     id \in {None, Some(3)}, by \in Authors,
     cd \in {None, Some([kind |-> "iso", sec |-> 1, ms |-> 0])},
     tx \in {None} \cup {Some(t) : t \in CommentTexts}}

CommentLists ==
  {<<cm>> : cm \in ListedComments}
    \cup UNION {[1..n -> {FullComment(1), FullComment(2), BareComment}] : n \in 0..MaxComments}

Counts == {None} \cup {Some(n) : n \in 0..MaxCount} \cup {Some(DefaultLimit), Some(DefaultLimit + 1)}

\* Outcomes of response.json() in list-comments: a payload, null, or a failure
CommentsPayloads ==
  {Value(Some([comments |-> Some(cs), count |-> n])) : cs \in CommentLists, n \in Counts}
    \cup {Value(Some([comments |-> None, count |-> n])) : n \in Counts}
    \cup {Value(None)}
    \cup {Failure(ErrorObj(<<"Unexpected token < in JSON at position 0">>))}

ErrorBodies == {<<>>, <<"d", "e", "n", "i", "e", "d">>}
Limits == {None, Some(0), Some(1), Some(2)}

\* String(fields["System.TeamProject"] ?? "")
CommentsProject(wi) ==
  Coalesce(Field(Coalesce(wi.fields, <<>>), "System.TeamProject"), <<>>)

NoProjectText(ticket) ==
  <<"Could not determine project for work item ">> \o NumStr(ticket) \o <<".">>

\* Line 474
CommentsApiUrl(org, project, ticket, limit) ==
  StripTrailingSlash(org) \o <<"/">> \o encodeURIComponent(project)
    \o <<"/_apis/wit/workItems/">> \o NumStr(ticket) \o <<"/comments?$top=">> \o NumStr(limit)
    \o <<"&$orderby=createdDate desc&api-version=7.1-preview">>

\* error instanceof Error ? error.message : String(error)
ErrorMessage(e) == IF e.isError THEN e.message ELSE e.value

\* A handler without the catch of lines 544-553.
CommentsCatchRethrow(e) == Thrown(e)

\* Lines 544-553
CommentsCatch(e) == Returned(TextBlock(<<"Error fetching comments: ">> \o ErrorMessage(e)))

Caught(c, e, r) ==
  /\ Finish(c, r)
  /\ loc' = [loc EXCEPT ![c].caught = Some(e)]

\* Line 489
CommentsUnavailableText(ticket) ==
  <<"Work item ">> \o NumStr(ticket) \o <<" has no comments or comments API is not available.">>

\* An error text that leaves the status out.
CommentsHttpErrorTextNoStatus(status, errorText) ==
  <<"Error fetching comments: ">> \o errorText

\* Line 499
CommentsHttpErrorText(status, errorText) ==
  <<"Error fetching comments: ">> \o NumStr(status) \o <<" ">> \o errorText

NoCommentsText(ticket) == <<"No comments found for work item ">> \o NumStr(ticket) \o <<".">>

\* turndownService.turndown(input): a TypeError unless input is a string
TurndownOutcome(input) ==
  IF input.isString
    THEN Value(turndown(input.html))
    ELSE Failure(ErrorObj(input.html \o <<" is not a string, or an element/document/fragment node.">>))

\* comment.createdBy?.displayName ?? "<unknown>"
Author(comment) ==
  IF comment.createdBy = None THEN <<"<unknown>">>
  ELSE Coalesce(comment.createdBy[1].displayName, <<"<unknown>">>)

\* comment.createdDate ? new Date(comment.createdDate).toLocaleString() : "<no date>"
CreatedDate(comment) ==
  IF comment.createdDate # None /\ Truthy(comment.createdDate[1])
    THEN LocaleString(comment.createdDate[1])
    ELSE <<"<no date>">>

CommentId(comment) == IF comment.id = None THEN <<"<no id>">> ELSE NumStr(comment.id[1])

CommentHtml(comment) == Coalesce(comment.text, Html(<<"<no content>">>))

\* Lines 522-531, for a comment whose text converts
ListedComment(comment) ==
  <<"### Comment #">> \o CommentId(comment) \o <<"\n\n**Author:** ">> \o Author(comment)
    \o <<"  \n**Date:** ">> \o CreatedDate(comment) \o <<"\n\n">>
    \o TurndownOutcome(CommentHtml(comment)).value \o <<"\n\n---">>

WarningSign == "(warning sign)"

\* A header that warns already when the total equals the limit.
CommentsHeaderAtLimit(ticket, limit, totalCount) ==
  <<"# Comments for Work Item #">> \o NumStr(ticket) \o <<"\n\n">>
    \o (IF totalCount >= limit
          THEN <<WarningSign, " **Showing ">> \o NumStr(limit) \o <<" most recent comments out of ">>
                 \o NumStr(totalCount) \o <<" total.**\n\n">>
          ELSE <<"**Total:** ">> \o NumStr(totalCount) \o <<" comment">>
                 \o (IF totalCount # 1 THEN <<"s">> ELSE <<>>) \o <<"\n\n">>)

\* Lines 534-539
CommentsHeader(ticket, limit, totalCount) ==
  <<"# Comments for Work Item #">> \o NumStr(ticket) \o <<"\n\n">>
    \o (IF totalCount > limit
          THEN <<WarningSign, " **Showing ">> \o NumStr(limit) \o <<" most recent comments out of ">>
                 \o NumStr(totalCount) \o <<" total.**\n\n">>
          ELSE <<"**Total:** ">> \o NumStr(totalCount) \o <<" comment">>
                 \o (IF totalCount # 1 THEN <<"s">> ELSE <<>>) \o <<"\n\n">>)

\* Lines 505-543: what the handler makes of the parsed payload
CommentsRender(ticket, limit, payload) ==
  IF payload = None THEN Failure(TypeErrorNull("comments"))
  ELSE LET data == payload[1]
           comments == Coalesce(data.comments, <<>>)
           totalCount == Coalesce(data.count, Len(comments))
           failing == {k \in 1..Len(comments) :
                         TurndownOutcome(CommentHtml(comments[k])).kind = "error"}
       IN IF Len(comments) = 0 THEN Value(NoCommentsText(ticket))
          ELSE IF failing # {}
            THEN TurndownOutcome(CommentHtml(
                   comments[CHOOSE k \in failing : \A j \in failing : k <= j]))
          ELSE Value(CommentsHeader(ticket, limit, totalCount)
                       \o Join([k \in 1..Len(comments) |-> ListedComment(comments[k])], <<"\n\n">>))

\* Line 444: limit = 100 when the argument is absent
InvokeComments(c) ==
  \E ticket \in Ids, limit \in Limits :
    Begin(c, "comments",
          [NoArgs EXCEPT !.id = ticket, !.limit = Coalesce(limit, DefaultLimit)], "awaitApi")

CommentsAwaitApi(c) ==
  /\ At(c, "comments", "awaitApi")
  /\ \/ witApiPromise = "resolved" /\ Goto(c, "getWorkItem") /\ UNCHANGED <<loc, result>>
     \/ witApiPromise = "rejected" /\ Caught(c, InitFailure, CommentsCatch(InitFailure))

\* Lines 448-481
CommentsGetWorkItem(c) ==
  /\ At(c, "comments", "getWorkItem")
  /\ \E o \in GetWorkItemOutcomes :
       IF o.kind = "error" THEN Caught(c, o.error, CommentsCatch(o.error))
       ELSE IF o.value = None
         THEN Finish(c, Returned(TextBlock(NotFoundText(arg[c].id)))) /\ UNCHANGED loc
       ELSE LET project == CommentsProject(o.value[1])
            IN IF project = <<>>
                 THEN /\ Finish(c, Returned(TextBlock(NoProjectText(arg[c].id))))
                      /\ loc' = [loc EXCEPT ![c].project = Some(project)]
                 ELSE /\ loc' = [loc EXCEPT ![c].project = Some(project),
                                            ![c].request = Some(CommentsApiUrl(
                                               orgUrl, project, arg[c].id, arg[c].limit))]
                      /\ Goto(c, "fetch")
                      /\ UNCHANGED result

\* Lines 476-493
CommentsResponse(c) ==
  /\ At(c, "comments", "fetch")
  /\ \/ \E e \in Failures : Caught(c, e, CommentsCatch(e))
     \/ \E status \in Statuses :
          IF ~Ok(status) /\ status = 404
            THEN /\ Finish(c, Returned(TextBlock(CommentsUnavailableText(arg[c].id))))
                 /\ loc' = [loc EXCEPT ![c].response = Some([status |-> status])]
            ELSE /\ loc' = [loc EXCEPT ![c].response = Some([status |-> status])]
                 /\ Goto(c, IF Ok(status) THEN "json" ELSE "text")
                 /\ UNCHANGED result

\* Lines 494-502
CommentsErrorText(c) ==
  /\ At(c, "comments", "text")
  /\ \/ \E e \in Failures : Caught(c, e, CommentsCatch(e))
     \/ \E errorText \in ErrorBodies :
          /\ Finish(c, Returned(TextBlock(
                         CommentsHttpErrorText(loc[c].response[1].status, errorText))))
          /\ loc' = [loc EXCEPT ![c].data = Some(errorText)]

\* Lines 505-543
CommentsJson(c) ==
  /\ At(c, "comments", "json")
  /\ \E o \in CommentsPayloads :
       IF o.kind = "error" THEN Caught(c, o.error, CommentsCatch(o.error))
       ELSE LET r == CommentsRender(arg[c].id, arg[c].limit, o.value)
            IN IF r.kind = "error"
                 THEN /\ Finish(c, CommentsCatch(r.error))
                      /\ loc' = [loc EXCEPT ![c].caught = Some(r.error),
                                            ![c].data = Some(o.value)]
                 ELSE /\ Finish(c, Returned(TextBlock(r.value)))
                      /\ loc' = [loc EXCEPT ![c].data = Some(o.value)]

\* ----------------------------------------------------- comment (564-657)
CommentIds == {3}

\* Outcomes of response.json() in get-comment
CommentPayloads ==
  {Value(Some(Comment(id, by, cd, md, tx))) :
     id \in {None, Some(3)}, by \in Authors,
     cd \in {None} \cup {Some(d) : d \in DateStrings},
     md \in {None} \cup {Some(d) : d \in DateStrings},
     tx \in {None} \cup {Some(t) : t \in CommentTexts}}
    \cup {Value(None)}
    \cup {Failure(ErrorObj(<<"Unexpected end of JSON input">>))}

\* Line 594
CommentApiUrl(org, project, ticket, comment_id) ==
  StripTrailingSlash(org) \o <<"/">> \o encodeURIComponent(project)
    \o <<"/_apis/wit/workItems/">> \o NumStr(ticket) \o <<"/comments/">> \o NumStr(comment_id)
    \o <<"?api-version=7.1-preview">>

\* Lines 647-656
CommentCatch(e) == Returned(TextBlock(<<"Error fetching comment: ">> \o ErrorMessage(e)))

\* Line 609
CommentNotFoundText(comment_id, ticket) ==
  <<"Comment ">> \o NumStr(comment_id) \o <<" not found in work item ">> \o NumStr(ticket)
    \o <<".">>

\* Line 619
CommentHttpErrorText(status, errorText) ==
  <<"Error fetching comment: ">> \o NumStr(status) \o <<" ">> \o errorText

\* Lines 631-633: null unless the payload has a non-empty modifiedDate
ModifiedDate(comment) ==
  IF comment.modifiedDate # None /\ Truthy(comment.modifiedDate[1])
    THEN Some(LocaleString(comment.modifiedDate[1]))
    ELSE None

ModifiedLabel == "  \n**Modified:** "

\* Lines 637-640
ModifiedSection(createdDate, modifiedDate) ==
  IF modifiedDate # None /\ modifiedDate[1] # createdDate
    THEN <<ModifiedLabel>> \o modifiedDate[1]
    ELSE <<>>

\* Lines 625-646: what the handler makes of the parsed payload
CommentRender(payload) ==
  IF payload = None THEN Failure(TypeErrorNull("id"))
  ELSE LET comment == payload[1]
           text == TurndownOutcome(CommentHtml(comment))
       IN IF text.kind = "error" THEN text
          ELSE Value(<<"# Comment #">> \o CommentId(comment) \o <<"\n\n**Author:** ">>
                       \o Author(comment) \o <<"  \n**Created:** ">> \o CreatedDate(comment)
                       \o ModifiedSection(CreatedDate(comment), ModifiedDate(comment))
                       \o <<"\n\n---\n\n">> \o text.value)

InvokeComment(c) ==
  \E ticket \in Ids, comment_id \in CommentIds :
    Begin(c, "comment", [NoArgs EXCEPT !.id = ticket, !.comment_id = comment_id], "awaitApi")

CommentAwaitApi(c) ==
  /\ At(c, "comment", "awaitApi")
  /\ \/ witApiPromise = "resolved" /\ Goto(c, "getWorkItem") /\ UNCHANGED <<loc, result>>
     \/ witApiPromise = "rejected" /\ Caught(c, InitFailure, CommentCatch(InitFailure))

\* Lines 568-601
CommentGetWorkItem(c) ==
  /\ At(c, "comment", "getWorkItem")
  /\ \E o \in GetWorkItemOutcomes :
       IF o.kind = "error" THEN Caught(c, o.error, CommentCatch(o.error))
       ELSE IF o.value = None
         THEN Finish(c, Returned(TextBlock(NotFoundText(arg[c].id)))) /\ UNCHANGED loc
       ELSE LET project == CommentsProject(o.value[1])
            IN IF project = <<>>
                 THEN /\ Finish(c, Returned(TextBlock(NoProjectText(arg[c].id))))
                      /\ loc' = [loc EXCEPT ![c].project = Some(project)]
                 ELSE /\ loc' = [loc EXCEPT ![c].project = Some(project),
                                            ![c].request = Some(CommentApiUrl(
                                               orgUrl, project, arg[c].id, arg[c].comment_id))]
                      /\ Goto(c, "fetch")
                      /\ UNCHANGED result

\* Lines 596-613
CommentResponse(c) ==
  /\ At(c, "comment", "fetch")
  /\ \/ \E e \in Failures : Caught(c, e, CommentCatch(e))
     \/ \E status \in Statuses :
          IF ~Ok(status) /\ status = 404
            THEN /\ Finish(c, Returned(TextBlock(
                                CommentNotFoundText(arg[c].comment_id, arg[c].id))))
                 /\ loc' = [loc EXCEPT ![c].response = Some([status |-> status])]
            ELSE /\ loc' = [loc EXCEPT ![c].response = Some([status |-> status])]
                 /\ Goto(c, IF Ok(status) THEN "json" ELSE "text")
                 /\ UNCHANGED result

\* Lines 614-622
CommentErrorText(c) ==
  /\ At(c, "comment", "text")
  /\ \/ \E e \in Failures : Caught(c, e, CommentCatch(e))
     \/ \E errorText \in ErrorBodies :
          /\ Finish(c, Returned(TextBlock(
                         CommentHttpErrorText(loc[c].response[1].status, errorText))))
          /\ loc' = [loc EXCEPT ![c].data = Some(errorText)]

\* Lines 625-646
CommentJson(c) ==
  /\ At(c, "comment", "json")
  /\ \E o \in CommentPayloads :
       IF o.kind = "error" THEN Caught(c, o.error, CommentCatch(o.error))
       ELSE LET r == CommentRender(o.value)
            IN IF r.kind = "error"
                 THEN /\ Finish(c, CommentCatch(r.error))
                      /\ loc' = [loc EXCEPT ![c].caught = Some(r.error),
                                            ![c].data = Some(o.value)]
                 ELSE /\ Finish(c, Returned(TextBlock(r.value)))
                      /\ loc' = [loc EXCEPT ![c].data = Some(o.value)]

\* ----------------------------------------------------------- specification
Step(c) ==
  \/ InvokeWorkItem(c)
  \/ WorkItemAwaitApi(c)
  \/ WorkItemGetWorkItem(c)
  \/ InvokeAttachments(c)
  \/ AttachmentsAwaitApi(c)
  \/ AttachmentsGetWorkItem(c)
  \/ InvokeFetchUrl(c)
  \/ FetchUrlResponse(c)
  \/ FetchUrlBody(c)
  \/ InvokeMyWorkItems(c)
  \/ InvokeComments(c)
  \/ CommentsAwaitApi(c)
  \/ CommentsGetWorkItem(c)
  \/ CommentsResponse(c)
  \/ CommentsErrorText(c)
  \/ CommentsJson(c)
  \/ InvokeComment(c)
  \/ CommentAwaitApi(c)
  \/ CommentGetWorkItem(c)
  \/ CommentResponse(c)
  \/ CommentErrorText(c)
  \/ CommentJson(c)
  \/ MyWorkItemsAwaitApi(c)
  \/ MyWorkItemsQuery(c)
  \/ MyWorkItemsBatch(c)
  \/ Respond(c)

Next ==
  \/ Startup
  \/ Connect
  \/ InitSettles
  \/ Step("a")

Spec == Init /\ [][Next]_vars


\* The service holds one fixed work item; call "a" runs work-item on it and
\* call "b" runs work-item-attachments on it.
InitSameItem ==
  /\ boot = "serving"
  /\ pat = <<"p">>
  /\ orgUrl = <<"o">>
  /\ witApiPromise = "resolved"
  /\ clientInits = 1
  /\ remote \in {Some(w) : w \in WorkItems}
  /\ op = [c \in Calls |-> ""]
  /\ pc = [c \in Calls |-> "idle"]
  /\ arg = [c \in Calls |-> NoArgs]
  /\ loc = [c \in Calls |-> NoLocals]
  /\ result = [c \in Calls |-> NoResult]

NextSameItem ==
  \/ InvokeWorkItem("a")
  \/ WorkItemAwaitApi("a")
  \/ WorkItemGetWorkItem("a")
  \/ InvokeAttachments("b")
  \/ AttachmentsAwaitApi("b")
  \/ AttachmentsGetWorkItem("b")
  \/ \E c \in Calls : Respond(c)

SpecSameItem == InitSameItem /\ [][NextSameItem]_vars


\* The process from its start with both call slots open, so that invocations
\* overlap with each other and with the client initialization still in
\* flight.  The service holds one fixed work item without relations.
InitConcurrent ==
  /\ boot = "start"
  /\ pat \in {<<>>, <<"p">>}
  /\ orgUrl \in {<<>>, <<"o">>, <<"o", "/">>}
  /\ witApiPromise = "none"
  /\ clientInits = 0
  /\ remote \in {Some(w) : w \in {x \in WorkItems : x.relations = None}}
  /\ op = [c \in Calls |-> ""]
  /\ pc = [c \in Calls |-> "idle"]
  /\ arg = [c \in Calls |-> NoArgs]
  /\ loc = [c \in Calls |-> NoLocals]
  /\ result = [c \in Calls |-> NoResult]

StepConcurrent(c) ==
  \/ InvokeWorkItem(c)
  \/ WorkItemAwaitApi(c)
  \/ WorkItemGetWorkItem(c)
  \/ InvokeAttachments(c)
  \/ AttachmentsAwaitApi(c)
  \/ AttachmentsGetWorkItem(c)
  \/ Respond(c)

NextConcurrent ==
  \/ Startup
  \/ Connect
  \/ InitSettles
  \/ \E c \in Calls : StepConcurrent(c)

SpecConcurrent == InitConcurrent /\ [][NextConcurrent]_vars

\* ------------------------------------------------------------------ claims
Finished(c, tool) == op[c] = tool /\ pc[c] = "done"
ReturnedText(c) == result[c].content[1].text

AttachedIndices(rels) == {k \in 1..Len(rels) : rels[k].rel = Some("AttachedFile")}
NthIndex(S, n) == CHOOSE x \in S : Cardinality({y \in S : y < x}) = n - 1
HeadingAt(text) == {k \in 1..Len(text) : text[k] = AttachmentsHeading}
FileNameParam == <<"f", "i", "l", "e", "N", "a", "m", "e", "=">>

\* C4: the text get-work-item returns has an "Attachments" section iff the work
\* item has a relation with rel = "AttachedFile"; the section is the list of
\* exactly those relations, in relation order, one link per relation, whose URL
\* is the relation URL, then '&' if that URL holds a '?' and '?' if not, then
\* the fileName parameter.
C4_AttachmentsSection ==
  \A c \in Calls :
    (Finished(c, "work-item") /\ result[c].kind = "returned" /\ loc[c].wi # None) =>
      LET rels == Coalesce(loc[c].wi[1].relations, <<>>)
          idx == AttachedIndices(rels)
          text == ReturnedText(c)
          at == HeadingAt(text)
      IN /\ (at # {}) <=> (idx # {})
         /\ idx # {} =>
              /\ Cardinality(at) = 1
              /\ loc[c].attachments # None
              /\ LET atts == loc[c].attachments[1]
                     section == SubSeq(text, (CHOOSE k \in at : TRUE) + 1, Len(text))
                 IN /\ Len(atts) = Cardinality(idx)
                    /\ section = Join([k \in 1..Len(atts) |->
                                         <<"* [">> \o atts[k].name \o <<"](">>
                                           \o atts[k].url \o <<")">>], <<"\n">>)
                    /\ \A k \in 1..Len(atts) :
                         LET u == rels[NthIndex(idx, k)].url[1]
                             sep == IF \E j \in 1..Len(u) : u[j] = "?" THEN "&" ELSE "?"
                         IN StartsWith(atts[k].url, u \o <<sep>> \o FileNameParam)

C4_Witness ==
  /\ Finished("a", "work-item")
  /\ result["a"].kind = "returned"
  /\ loc["a"].wi # None
  /\ LET rels == Coalesce(loc["a"].wi[1].relations, <<>>)
     IN /\ Len(rels) = 2
        /\ rels[1].rel = Some("Hyperlink")
        /\ rels[2].rel = Some("AttachedFile")
        /\ rels[2].url = Some(<<"u", "?", "x">>)

\* C5: on the same work item, get-work-item and list-attachments derive the
\* same attachment list: same length, same order, equal names and URLs.
C5_SameAttachments ==
  (/\ Finished("a", "work-item")
   /\ Finished("b", "work-item-attachments")
   /\ loc["a"].wi # None
   /\ loc["a"].wi = loc["b"].wi) =>
     /\ result["a"].kind = result["b"].kind
     /\ loc["a"].attachments = loc["b"].attachments

C5_Witness ==
  /\ Finished("a", "work-item")
  /\ Finished("b", "work-item-attachments")
  /\ loc["a"].wi # None
  /\ loc["a"].wi = loc["b"].wi
  /\ loc["b"].attachments # None
  /\ Len(loc["b"].attachments[1]) = 2
  /\ loc["b"].attachments[1][1].url # loc["b"].attachments[1][2].url


ItemIdText(wi) == IF wi.id = None THEN <<"?">> ELSE NumStr(wi.id[1])

\* C2: a finished list-my-work-items whose query returned N >= 1 ids has issued
\* ceil(N/200) batch fetches of at most 200 ids each, the k-th being ids
\* 200(k-1)+1 .. min(200k, N), so that the batches in issue order concatenate
\* to the id list; the text is one bullet per fetched record, in fetch order,
\* each starting with its record's id, and the records' ids follow the order
\* of the query's id list.
C2_BatchesAndOrder ==
  \A c \in Calls :
    (Finished(c, "my-work-items") /\ result[c].kind = "returned" /\ loc[c].ids # <<>>) =>
      LET ids == loc[c].ids
          n == Len(ids)
          batches == loc[c].batches
          items == loc[c].workItems
          text == ReturnedText(c)
          present == SelectSeq(items, LAMBDA w : w.id # None)
          got == {present[k].id[1] : k \in 1..Len(present)}
          bullets == [k \in 1..Len(items) |-> Bullet(items[k])]
      IN /\ Len(batches) = (n + batchSize - 1) \div batchSize
         /\ \A k \in 1..Len(batches) :
              /\ Len(batches[k]) <= batchSize
              /\ batches[k] = [j \in 1..(Min(k * batchSize, n) - (k - 1) * batchSize) |->
                                 ids[(k - 1) * batchSize + j]]
         /\ Flatten(batches) = ids
         /\ [k \in 1..Len(present) |-> present[k].id[1]] = SelectSeq(ids, LAMBDA x : x \in got)
         /\ text = Join(bullets, <<"\n">>)
         /\ \A k \in 1..Len(items) :
              StartsWith(bullets[k], <<"* #">> \o ItemIdText(items[k]) \o <<EnDash>>)

C2_Witness ==
  /\ Finished("a", "my-work-items")
  /\ result["a"].kind = "returned"
  /\ Len(loc["a"].ids) = 2 * batchSize + 1
  /\ Len(loc["a"].batches) = 3
  /\ Len(loc["a"].workItems) = Len(loc["a"].ids)
  /\ \A k \in 1..Len(loc["a"].ids) : loc["a"].workItems[k].id = Some(loc["a"].ids[k])
  /\ loc["a"].ids[1] > loc["a"].ids[2]

\* C3: a finished list-my-work-items whose query returned no ids (workItems
\* empty or absent) returned the text "No work items assigned to you." and
\* has issued no batch fetch.
C3_EmptyQuery ==
  \A c \in Calls :
    (/\ Finished(c, "my-work-items")
     /\ loc[c].response # None
     /\ Coalesce(loc[c].response[1].workItems, <<>>) = <<>>) =>
       /\ result[c] = Returned(TextBlock(<<"No work items assigned to you.">>))
       /\ loc[c].batches = <<>>
       /\ loc[c].inFlight = 0

C3_Witness ==
  /\ Finished("a", "my-work-items")
  /\ loc["a"].response = Some([workItems |-> None])
  /\ result["a"].kind = "returned"


PrefixOf(p, s) == Len(s) >= Len(p) /\ \A k \in 1..Len(p) : s[k] = p[k]

\* C1: every response fetch-url answers is one block whose type is image when
\* the content type (the empty string when the header is absent) starts with
\* "image/", text when it does not but starts with "text/", and resource in
\* every other case, whatever the status and the body are.
C1_Routing ==
  \A c \in Calls :
    (Finished(c, "fetch-url") /\ loc[c].data # None) =>
      LET mime == Coalesce(loc[c].response[1].contentType, <<>>)
          image == PrefixOf(<<"i", "m", "a", "g", "e", "/">>, mime)
          text == PrefixOf(<<"t", "e", "x", "t", "/">>, mime)
      IN /\ result[c].kind = "returned"
         /\ Len(result[c].content) = 1
         /\ result[c].content[1].type \in {"image", "text", "resource"}
         /\ result[c].content[1].type = "image" <=> image
         /\ result[c].content[1].type = "text" <=> (~image /\ text)
         /\ result[c].content[1].type = "resource" <=> (~image /\ ~text)

C1_Witness ==
  /\ Finished("a", "fetch-url")
  /\ loc["a"].data = Some(<<104, 105>>)
  /\ loc["a"].response =
       Some([status |-> 404, contentType |-> Some(<<"t", "e", "x", "t", "/", "c", "s", "v">>)])
  /\ result["a"].kind = "returned"
  /\ result["a"].content[1].type = "text"


Has(text, token) == \E k \in 1..Len(text) : text[k] = token
NumberAfter(text, token, n) ==
  \E k \in 1..Len(text) :
    /\ text[k] = token
    /\ k + Len(NumStr(n)) <= Len(text)
    /\ SubSeq(text, k + 1, k + Len(NumStr(n))) = NumStr(n)

\* C6: when list-comments renders a non-empty comment list, the header warns
\* of truncation, naming the limit and the total, exactly when the total (the
\* payload's count, or the number of comments when count is absent) exceeds
\* the limit; otherwise it gives the total and no warning.
C6_Header ==
  \A c \in Calls :
    (/\ Finished(c, "comments")
     /\ loc[c].caught = None
     /\ loc[c].data # None
     /\ loc[c].response # None
     /\ Ok(loc[c].response[1].status)
     /\ loc[c].data[1] # None
     /\ Coalesce(loc[c].data[1][1].comments, <<>>) # <<>>) =>
       LET data == loc[c].data[1][1]
           total == IF data.count = None THEN Len(data.comments[1]) ELSE data.count[1]
           limit == arg[c].limit
           text == ReturnedText(c)
       IN /\ result[c].kind = "returned"
          /\ total > limit =>
               /\ Has(text, WarningSign)
               /\ NumberAfter(text, " **Showing ", limit)
               /\ NumberAfter(text, " most recent comments out of ", total)
               /\ ~Has(text, "**Total:** ")
          /\ total <= limit =>
               /\ ~Has(text, WarningSign)
               /\ ~Has(text, " **Showing ")
               /\ NumberAfter(text, "**Total:** ", total)

C6_Witness ==
  /\ Finished("a", "comments")
  /\ loc["a"].caught = None
  /\ loc["a"].response = Some([status |-> 200])
  /\ loc["a"].data # None
  /\ loc["a"].data[1] # None
  /\ loc["a"].data[1][1].count = Some(5)
  /\ loc["a"].data[1][1].comments # None
  /\ Len(loc["a"].data[1][1].comments[1]) = 2
  /\ arg["a"].limit = 2
  /\ Has(ReturnedText("a"), WarningSign)


CommentOps == {"comments", "comment"}
GotComment(c) ==
  /\ Finished(c, "comment")
  /\ loc[c].response # None
  /\ Ok(loc[c].response[1].status)
  /\ loc[c].caught = None
  /\ loc[c].data # None
  /\ loc[c].data[1] # None

\* A date that is absent, or present as the empty string.
NoDate(d) == d = None \/ d = Some([kind |-> "empty"])

\* C7: the text get-comment renders for a comment has the "Modified" line
\* exactly when the comment's modifiedDate is present and differs from its
\* createdDate.
C7_ModifiedLine ==
  \A c \in Calls :
    GotComment(c) =>
      LET comment == loc[c].data[1][1]
      IN Has(ReturnedText(c), ModifiedLabel) <=>
           (~NoDate(comment.modifiedDate) /\ comment.modifiedDate # comment.createdDate)

NotOk(c) ==
  /\ op[c] \in CommentOps
  /\ pc[c] = "done"
  /\ loc[c].response # None
  /\ ~Ok(loc[c].response[1].status)

ErrorPrefix(tool) ==
  IF tool = "comments" THEN "Error fetching comments: " ELSE "Error fetching comment: "

NotFoundMessage(c) ==
  IF op[c] = "comments"
    THEN <<"Work item ">> \o NumStr(arg[c].id)
           \o <<" has no comments or comments API is not available.">>
    ELSE <<"Comment ">> \o NumStr(arg[c].comment_id) \o <<" not found in work item ">>
           \o NumStr(arg[c].id) \o <<".">>

\* C8 as stated: a non-2xx response of the comments endpoint ends in a returned
\* text, the not found / unavailable message for 404 and for any other status
\* an error message made of the status code and the response body text.
C8_StatusAndBody ==
  \A c \in Calls :
    NotOk(c) =>
      /\ result[c].kind = "returned"
      /\ result[c].content[1].type = "text"
      /\ loc[c].response[1].status = 404 => ReturnedText(c) = NotFoundMessage(c)
      /\ loc[c].response[1].status # 404 =>
           \E body \in ErrorBodies :
             ReturnedText(c) = <<ErrorPrefix(op[c])>> \o NumStr(loc[c].response[1].status)
                                 \o <<" ">> \o body

\* C8 amended: as above when the body text can be read; when reading the body
\* fails, the returned text carries the message of that failure instead.
C8_StatusAndBodyWhenRead ==
  \A c \in Calls :
    NotOk(c) =>
      /\ result[c].kind = "returned"
      /\ result[c].content[1].type = "text"
      /\ loc[c].response[1].status = 404 => ReturnedText(c) = NotFoundMessage(c)
      /\ (loc[c].response[1].status # 404 /\ loc[c].caught = None) =>
           /\ loc[c].data # None
           /\ ReturnedText(c) = <<ErrorPrefix(op[c])>> \o NumStr(loc[c].response[1].status)
                                  \o <<" ">> \o loc[c].data[1]
      /\ (loc[c].response[1].status # 404 /\ loc[c].caught # None) =>
           ReturnedText(c) = <<ErrorPrefix(op[c])>> \o ErrorMessage(loc[c].caught[1])

C8_Witness ==
  /\ NotOk("a")
  /\ op["a"] = "comments"
  /\ loc["a"].response[1].status = 500
  /\ loc["a"].data = Some(<<"d", "e", "n", "i", "e", "d">>)
  /\ result["a"].kind = "returned"

\* C9: list-comments and get-comment never end thrown: a finished call has
\* returned one text block, and when a step failed the text is the handler's
\* error prefix followed by the message of the failure.
C9_NeverThrown ==
  \A c \in Calls :
    op[c] \in CommentOps =>
      /\ result[c].kind # "thrown"
      /\ pc[c] = "done" =>
           /\ result[c].kind = "returned"
           /\ Len(result[c].content) = 1
           /\ result[c].content[1].type = "text"
           /\ loc[c].caught # None =>
                ReturnedText(c) = <<ErrorPrefix(op[c])>> \o ErrorMessage(loc[c].caught[1])

C9_Witness ==
  /\ Finished("a", "comments")
  /\ loc["a"].response = Some([status |-> 200])
  /\ loc["a"].data # None
  /\ loc["a"].caught # None
  /\ loc["a"].caught[1].isError
  /\ result["a"].kind = "returned"

AbsentFieldError(e) ==
  e.isError /\ e.message[1] = "Cannot read properties of undefined (reading '"

\* C10: no call fails because an optional field of a work item or of a comment
\* payload is absent: once get-work-item or list-attachments has its work
\* item it returns, and no handler ends on the error of reading a property
\* of an absent value.
C10_AbsentFieldsNeverFail ==
  \A c \in Calls :
    pc[c] = "done" =>
      /\ (op[c] \in {"work-item", "work-item-attachments"} /\ loc[c].wi # None) =>
           result[c].kind = "returned"
      /\ result[c].kind = "thrown" => ~AbsentFieldError(result[c].error)
      /\ loc[c].caught # None => ~AbsentFieldError(loc[c].caught[1])


PlainOps == {"work-item", "my-work-items", "work-item-attachments", "fetch-url"}

\* C11: in get-work-item, list-my-work-items, list-attachments and fetch-url
\* nothing is caught: once a step of the handler has raised an exception the
\* call is over and its outcome is that exception, thrown to the transport,
\* never a returned response.
C11_Propagates ==
  \A c \in Calls :
    op[c] \in PlainOps =>
      /\ loc[c].caught = None
      /\ loc[c].raised # None =>
           /\ pc[c] = "done"
           /\ result[c] = [kind |-> "thrown", error |-> loc[c].raised[1]]
      /\ result[c].kind = "returned" => loc[c].raised = None

C11_Witness ==
  /\ Finished("a", "my-work-items")
  /\ Len(loc["a"].batches) = 2
  /\ loc["a"].raised # None
  /\ ~loc["a"].raised[1].isError
  /\ result["a"].kind = "thrown"


ApiOps == {"work-item", "my-work-items", "work-item-attachments", "comments", "comment"}

\* C12: connection.getWorkItemTrackingApi() is called once, by the startup
\* code of a process that passed the configuration check, and never again:
\* whatever invocations overlap, each runs with that one initialization
\* started, stays at its first await while it is pending, goes on only once
\* it has resolved and fails with its rejection otherwise.
C12_SingleInit ==
  /\ clientInits <= 1
  /\ clientInits = 1 <=> boot \in {"connecting", "serving"}
  /\ clientInits = 1 <=> witApiPromise # "none"
  /\ \A c \in Calls :
       /\ op[c] # "" => clientInits = 1
       /\ (op[c] \in ApiOps /\ witApiPromise = "pending") => pc[c] = "awaitApi"
       /\ (op[c] \in ApiOps /\ pc[c] \notin {"awaitApi", "done"}) => witApiPromise = "resolved"
       /\ (op[c] \in ApiOps /\ pc[c] = "done" /\ witApiPromise = "rejected") =>
            InitFailure \in {loc[c].raised[k] : k \in 1..Len(loc[c].raised)}
                              \cup {loc[c].caught[k] : k \in 1..Len(loc[c].caught)}

C12_Witness ==
  /\ witApiPromise = "pending"
  /\ clientInits = 1
  /\ At("a", "work-item", "awaitApi")
  /\ At("b", "work-item-attachments", "awaitApi")


\* C13: in list-my-work-items the batch fetches go out one at a time in the
\* order of the id list: at most one is in flight, while the k-th is in
\* flight the loop has passed exactly the k-1 before it and holds no record
\* of the k-th, and the records collected so far stand in the order in which
\* their batches were issued.
C13_Sequential ==
  \A c \in Calls :
    op[c] = "my-work-items" =>
      LET ids == loc[c].ids
          batches == loc[c].batches
          n == Len(batches)
          items == loc[c].workItems
          completed == Flatten(SubSeq(batches, 1, n - loc[c].inFlight))
          present == SelectSeq(items, LAMBDA w : w.id # None)
          got == {present[k].id[1] : k \in 1..Len(present)}
      IN /\ loc[c].inFlight \in {0, 1}
         /\ loc[c].inFlight = 1 <=> pc[c] = "getWorkItems"
         /\ \A k \in 1..n :
              batches[k] = SubSeq(ids, (k - 1) * batchSize + 1, Min(k * batchSize, Len(ids)))
         /\ loc[c].inFlight = 1 => loc[c].i = (n - 1) * batchSize
         /\ Len(items) <= Len(completed)
         /\ [k \in 1..Len(present) |-> present[k].id[1]] = SelectSeq(completed, LAMBDA x : x \in got)

C13_Witness ==
  /\ At("a", "my-work-items", "getWorkItems")
  /\ loc["a"].inFlight = 1
  /\ Len(loc["a"].batches) = 2
  /\ Len(loc["a"].ids) > batchSize + 1
  /\ Len(loc["a"].workItems) = batchSize
  /\ loc["a"].workItems[1].id = Some(loc["a"].ids[1])

====
